---- MODULE Spec2Model ----
(***************************************************************************)
(* A model of the recursive site mirror in src/main.go: the crawl          *)
(* scheduler (goroutine per link, visited map under a mutex, semaphore     *)
(* channel, WaitGroup join), the link classifier, the link rewriter and    *)
(* the URL -> local path mapping.                                          *)
(*                                                                         *)
(* Strings that the program takes apart (URL paths, file paths) are        *)
(* sequences of one-character strings.                                     *)
(***************************************************************************)
EXTENDS Integers, Sequences, FiniteSets, TLC

----------------------------------------------------------------------------
(* Strings and lexical file paths (path/filepath on a Unix build)          *)

Sep == "/"
Dot == <<".">>
DotDot == <<".", ".">>

SetMax(S) == CHOOSE m \in S : \A x \in S : x <= m

\* strings.HasSuffix(s, "/")
HasSuffixSep(s) == Len(s) > 0 /\ s[Len(s)] = Sep

\* index of the last separator of s, 0 when there is none
LastSep(s) ==
    LET idx == {i \in 1..Len(s) : s[i] = Sep}
    IN  IF idx = {} THEN 0 ELSE SetMax(idx)

RECURSIVE Split(_)
\* the elements of s between separators
Split(s) ==
    IF \A i \in 1..Len(s) : s[i] # Sep
    THEN <<s>>
    ELSE LET i == CHOOSE k \in 1..Len(s) :
                      s[k] = Sep /\ \A j \in 1..(k - 1) : s[j] # Sep
         IN  <<SubSeq(s, 1, i - 1)>> \o Split(SubSeq(s, i + 1, Len(s)))

RECURSIVE JoinElems(_)
\* the elements joined by single separators
JoinElems(elems) ==
    IF elems = <<>> THEN <<>>
    ELSE IF Len(elems) = 1 THEN elems[1]
    ELSE elems[1] \o <<Sep>> \o JoinElems(Tail(elems))

RECURSIVE CleanElems(_, _, _)
\* filepath.Clean's pass over the elements: empty and "." elements are
\* dropped, ".." removes the element before it, is dropped at the root of a
\* rooted path and is kept at the front of a relative one
CleanElems(elems, out, rooted) ==
    IF elems = <<>> THEN out
    ELSE LET e == Head(elems)
             rest == Tail(elems)
         IN  IF e = <<>> \/ e = Dot
             THEN CleanElems(rest, out, rooted)
             ELSE IF e = DotDot
             THEN IF Len(out) > 0 /\ out[Len(out)] # DotDot
                  THEN CleanElems(rest, SubSeq(out, 1, Len(out) - 1), rooted)
                  ELSE IF rooted
                  THEN CleanElems(rest, out, rooted)
                  ELSE CleanElems(rest, Append(out, e), rooted)
             ELSE CleanElems(rest, Append(out, e), rooted)

\* filepath.Clean
Clean(p) ==
    IF p = <<>> THEN Dot
    ELSE LET rooted == p[1] = Sep
             body == JoinElems(CleanElems(Split(p), <<>>, rooted))
         IN  IF rooted THEN <<Sep>> \o body
             ELSE IF body = <<>> THEN Dot ELSE body

\* filepath.Join(a, b): empty elements are ignored, the result is cleaned
Join(a, b) ==
    IF a = <<>> /\ b = <<>> THEN <<>>
    ELSE IF a = <<>> THEN Clean(b)
    ELSE IF b = <<>> THEN Clean(a)
    ELSE Clean(a \o <<Sep>> \o b)

\* filepath.Ext: the suffix from the last dot of the last element
Ext(p) ==
    LET dots == {i \in 1..Len(p) : p[i] = "." /\ \A j \in i..Len(p) : p[j] # Sep}
    IN  IF dots = {} THEN <<>> ELSE SubSeq(p, SetMax(dots), Len(p))

\* filepath.Dir: all but the last element, cleaned
Dir(p) == Clean(SubSeq(p, 1, LastSep(p)))

RECURSIVE CommonPrefix(_, _)
\* number of leading elements two element lists share
CommonPrefix(bs, ts) ==
    IF bs = <<>> \/ ts = <<>> \/ Head(bs) # Head(ts) THEN 0
    ELSE 1 + CommonPrefix(Tail(bs), Tail(ts))

\* elements of a cleaned path; "." has none
PathElems(p) == IF p = <<>> THEN <<>> ELSE Split(p)

\* filepath.Rel(basepath, targpath): [ok, path]
Rel(basepath, targpath) ==
    LET base0 == Clean(basepath)
        targ == Clean(targpath)
        base == IF base0 = Dot THEN <<>> ELSE base0
        baseSlashed == Len(base) > 0 /\ base[1] = Sep
        targSlashed == Len(targ) > 0 /\ targ[1] = Sep
        bs == PathElems(IF baseSlashed THEN Tail(base) ELSE base)
        ts == PathElems(IF targSlashed THEN Tail(targ) ELSE targ)
        k == CommonPrefix(bs, ts)
        up == [i \in 1..(Len(bs) - k) |-> DotDot]
        down == SubSeq(ts, k + 1, Len(ts))
    IN  IF targ = base0 THEN [ok |-> TRUE, path |-> Dot]
        ELSE IF baseSlashed # targSlashed THEN [ok |-> FALSE, path |-> <<>>]
        ELSE IF k < Len(bs) /\ bs[k + 1] = DotDot THEN [ok |-> FALSE, path |-> <<>>]
        ELSE [ok |-> TRUE, path |-> JoinElems(up \o down)]

----------------------------------------------------------------------------
(* URLs (net/url as main.go uses it). A string is a sequence of bytes. A   *)
(* byte is written as a one-character string when it is printable ASCII    *)
(* (but the backquote) or one of \t \n \f \r, and as the string \xHL, with  *)
(* its two hex digits, otherwise.                                          *)

Lower == {"a", "b", "c", "d", "e", "f", "g", "h", "i", "j", "k", "l", "m",
          "n", "o", "p", "q", "r", "s", "t", "u", "v", "w", "x", "y", "z"}
Upper == {"A", "B", "C", "D", "E", "F", "G", "H", "I", "J", "K", "L", "M",
          "N", "O", "P", "Q", "R", "S", "T", "U", "V", "W", "X", "Y", "Z"}
Letters == Lower \cup Upper
Digits == {"0", "1", "2", "3", "4", "5", "6", "7", "8", "9"}
HexDigits == Digits \cup {"a", "b", "c", "d", "e", "f"}
                    \cup {"A", "B", "C", "D", "E", "F"}

\* the digits escape writes ("0123456789ABCDEF")
upperhex == <<"0", "1", "2", "3", "4", "5", "6", "7", "8", "9",
              "A", "B", "C", "D", "E", "F">>

\* the bytes 0x20 to 0x7E
Printable ==
    <<" ", "!", "\"", "#", "$", "%", "&", "'", "(", ")", "*", "+", ",", "-",
      ".", "/", "0", "1", "2", "3", "4", "5", "6", "7", "8", "9", ":", ";",
      "<", "=", ">", "?", "@", "A", "B", "C", "D", "E", "F", "G", "H", "I",
      "J", "K", "L", "M", "N", "O", "P", "Q", "R", "S", "T", "U", "V", "W",
      "X", "Y", "Z", "[", "\\", "]", "^", "_", "\\x60", "a", "b", "c", "d", "e",
      "f", "g", "h", "i", "j", "k", "l", "m", "n", "o", "p", "q", "r", "s",
      "t", "u", "v", "w", "x", "y", "z", "{", "|", "}", "~">>

\* the byte with value v
Bytes ==
    [v \in 0..255 |->
        IF v \in 32..126 THEN Printable[v - 31]
        ELSE IF v = 9 THEN "\t"
        ELSE IF v = 10 THEN "\n"
        ELSE IF v = 12 THEN "\f"
        ELSE IF v = 13 THEN "\r"
        ELSE "\\x" \o upperhex[(v \div 16) + 1] \o upperhex[(v % 16) + 1]]

\* the value of byte c
Code(c) == CHOOSE v \in 0..255 : Bytes[v] = c

\* the bytes below 0x80
Ascii == {Bytes[v] : v \in 0..127}

\* url.stringContainsCTLByte: a byte below 0x20 or 0x7F
Ctl == {Bytes[v] : v \in (0..31) \cup {127}}
stringContainsCTLByte(s) == \E i \in 1..Len(s) : s[i] \in Ctl

\* url.unhex
unhex ==
    [c \in HexDigits |->
        IF c \in Digits THEN Code(c) - 48
        ELSE IF c \in Upper THEN Code(c) - 55
        ELSE Code(c) - 87]

\* strings.ToLower on ASCII
lowerOf == [c \in Upper |-> Bytes[Code(c) + 32]]
ToLower(s) == [i \in 1..Len(s) |-> IF s[i] \in Upper THEN lowerOf[s[i]] ELSE s[i]]

Http == <<"h", "t", "t", "p">>
Https == <<"h", "t", "t", "p", "s">>
Star == <<"*">>
Pct25 == <<"%", "2", "5">>

\* index of the first occurrence of character c in s, 0 when there is none
IndexOf(s, c) ==
    IF \A i \in 1..Len(s) : s[i] # c THEN 0
    ELSE CHOOSE i \in 1..Len(s) : s[i] = c /\ \A j \in 1..(i - 1) : s[j] # c

\* strings.LastIndex(s, c) + 1
LastIndexOf(s, c) ==
    LET idx == {i \in 1..Len(s) : s[i] = c}
    IN  IF idx = {} THEN 0 ELSE SetMax(idx)

\* strings.Index(s, "%25") + 1
IndexOfPct25(s) ==
    LET idx == {i \in 1..(Len(s) - 2) : SubSeq(s, i, i + 2) = Pct25}
    IN  IF idx = {} THEN 0 ELSE CHOOSE i \in idx : \A j \in idx : i <= j

\* strings.Count(s, c)
CountOf(s, c) == Cardinality({i \in 1..Len(s) : s[i] = c})

\* strings.Cut(s, c): the parts before and after the first c
CutBefore(s, c) == IF IndexOf(s, c) = 0 THEN s ELSE SubSeq(s, 1, IndexOf(s, c) - 1)
CutAfter(s, c) == IF IndexOf(s, c) = 0 THEN <<>> ELSE SubSeq(s, IndexOf(s, c) + 1, Len(s))

\* strings.HasSuffix(s, c)
HasSuffixChar(s, c) == Len(s) > 0 /\ s[Len(s)] = c

HasPrefix2(s, c) == Len(s) >= 2 /\ s[1] = c /\ s[2] = c

\* a nil *url.Userinfo
NoUser == [set |-> FALSE, username |-> <<>>, password |-> <<>>,
           passwordSet |-> FALSE]

\* the zero url.URL
NoURL == [scheme |-> <<>>, opaque |-> <<>>, user |-> NoUser, host |-> <<>>,
          path |-> <<>>, rawpath |-> <<>>, omitHost |-> FALSE,
          forceQuery |-> FALSE, query |-> <<>>, frag |-> <<>>,
          rawfrag |-> <<>>]

\* a failed parse
NoParse == [ok |-> FALSE, url |-> NoURL]

\* url.shouldEscape(c, mode) for the modes Parse and String use: "path",
\* "host", "zone", "userPassword" and "fragment"
shouldEscape(c, mode) ==
    IF c \in Letters \cup Digits THEN FALSE
    ELSE IF mode \in {"host", "zone"}
            /\ c \in {"!", "$", "&", "'", "(", ")", "*", "+", ",", ";", "=",
                      ":", "[", "]", "<", ">", "\""}
    THEN FALSE
    ELSE IF c \in {"-", "_", ".", "~"} THEN FALSE
    ELSE IF c \in {"$", "&", "+", ",", "/", ":", ";", "=", "?", "@"}
            /\ mode \in {"path", "userPassword", "fragment"}
    THEN CASE mode = "path" -> c = "?"
           [] mode = "userPassword" -> c \in {"@", "/", "?", ":"}
           [] mode = "fragment" -> FALSE
    ELSE IF mode = "fragment" /\ c \in {"!", "(", ")", "*"} THEN FALSE
    ELSE TRUE

\* "%" and the two upper-case hex digits of the byte with value v
pctOf(v) == <<"%", upperhex[(v \div 16) + 1], upperhex[(v % 16) + 1]>>

RECURSIVE escapeFrom(_, _)
escapeFrom(s, mode) ==
    IF s = <<>> THEN <<>>
    ELSE (IF shouldEscape(Head(s), mode) THEN pctOf(Code(Head(s)))
          ELSE <<Head(s)>>) \o escapeFrom(Tail(s), mode)

\* url.escape(s, mode)
escape(s, mode) ==
    IF \A i \in 1..Len(s) : ~shouldEscape(s[i], mode) THEN s
    ELSE escapeFrom(s, mode)

\* the byte the escape %hl stands for
unpct(h, l) == Bytes[(16 * unhex[h]) + unhex[l]]

\* url.unescape(s, mode) returns an error: an escape that is cut short or
\* has a digit that is not hex; in a host an escape of an ASCII byte other
\* than %25, or an ASCII byte that may not stand in a host
escapeError(s, mode) ==
    \E i \in 1..Len(s) :
        IF s[i] = "%"
        THEN \/ i + 2 > Len(s)
             \/ s[i + 1] \notin HexDigits
             \/ s[i + 2] \notin HexDigits
             \/ /\ mode = "host"
                /\ unhex[s[i + 1]] < 8
                /\ SubSeq(s, i, i + 2) # Pct25
             \/ /\ mode = "zone"
                /\ SubSeq(s, i, i + 2) # Pct25
                /\ unpct(s[i + 1], s[i + 2]) # " "
                /\ shouldEscape(unpct(s[i + 1], s[i + 2]), "host")
        ELSE /\ mode \in {"host", "zone"}
             /\ s[i] \in Ascii
             /\ shouldEscape(s[i], "host")

RECURSIVE unescapeFrom(_)
unescapeFrom(s) ==
    IF s = <<>> THEN <<>>
    ELSE IF Head(s) = "%"
    THEN <<unpct(s[2], s[3])>> \o unescapeFrom(SubSeq(s, 4, Len(s)))
    ELSE <<Head(s)>> \o unescapeFrom(Tail(s))

\* url.unescape(s, mode) when it returns no error
unescape(s) ==
    IF \A i \in 1..Len(s) : s[i] # "%" THEN s ELSE unescapeFrom(s)

\* url.validEncoded(s, mode)
validEncoded(s, mode) ==
    \A i \in 1..Len(s) :
        \/ s[i] \in {"!", "$", "&", "'", "(", ")", "*", "+", ",", ";", "=",
                     ":", "@", "[", "]", "%"}
        \/ ~shouldEscape(s[i], mode)

\* URL.setPath(p), p decoding to path
setPathTo(u, p, path) ==
    [u EXCEPT !.path = path,
              !.rawpath = IF escape(path, "path") = p THEN <<>> ELSE p]

\* URL.setPath(p) when p has no bad escape
setPath(u, p) == setPathTo(u, p, unescape(p))

\* URL.setFragment(f), f decoding to frag
setFragmentTo(u, f, frag) ==
    [u EXCEPT !.frag = frag,
              !.rawfrag = IF escape(frag, "fragment") = f THEN <<>> ELSE f]

\* URL.EscapedPath()
EscapedPath(u) ==
    IF /\ u.rawpath # <<>>
       /\ validEncoded(u.rawpath, "path")
       /\ ~escapeError(u.rawpath, "path")
       /\ unescape(u.rawpath) = u.path
    THEN u.rawpath
    ELSE IF u.path = Star THEN Star
    ELSE escape(u.path, "path")

\* URL.EscapedFragment()
EscapedFragment(u) ==
    IF /\ u.rawfrag # <<>>
       /\ validEncoded(u.rawfrag, "fragment")
       /\ ~escapeError(u.rawfrag, "fragment")
       /\ unescape(u.rawfrag) = u.frag
    THEN u.rawfrag
    ELSE escape(u.frag, "fragment")

\* url.getScheme: the length of the scheme prefix (0: none, -1: error)
SchemeLen(raw) ==
    LET stops == {i \in 1..Len(raw) :
                     \/ raw[i] = ":"
                     \/ raw[i] \notin (Letters \cup Digits \cup {"+", "-", "."})
                     \/ (i = 1 /\ raw[i] \notin Letters)}
    IN  IF stops = {} THEN 0
        ELSE LET i == CHOOSE k \in stops : \A j \in stops : k <= j
             IN  IF raw[i] # ":" THEN 0
                 ELSE IF i = 1 THEN -1
                 ELSE i - 1

\* url.validOptionalPort
validOptionalPort(port) ==
    \/ port = <<>>
    \/ port[1] = ":" /\ \A i \in 2..Len(port) : port[i] \in Digits

\* url.validUserinfo
validUserinfo(s) ==
    \A i \in 1..Len(s) :
        s[i] \in Letters \cup Digits
                 \cup {"-", ".", "_", ":", "~", "!", "$", "&", "'", "(", ")",
                       "*", "+", ",", ";", "=", "%", "@"}

\* the end of url.parseHost: the host unescaped
unescapeHost(h) ==
    IF escapeError(h, "host") THEN [ok |-> FALSE, host |-> <<>>]
    ELSE [ok |-> TRUE, host |-> unescape(h)]

\* url.parseHost on an IP literal whose "]" is at i and whose zone starts
\* at zone (0: it has none)
zoneHost(h, i, zone) ==
    IF zone = 0 THEN unescapeHost(h)
    ELSE IF \E p \in {[s |-> SubSeq(h, 1, zone - 1), mode |-> "host"],
                       [s |-> SubSeq(h, zone, i - 1), mode |-> "zone"],
                       [s |-> SubSeq(h, i, Len(h)), mode |-> "host"]} :
               escapeError(p.s, p.mode)
    THEN [ok |-> FALSE, host |-> <<>>]
    ELSE [ok |-> TRUE,
          host |-> unescape(SubSeq(h, 1, zone - 1))
                      \o unescape(SubSeq(h, zone, i - 1))
                      \o unescape(SubSeq(h, i, Len(h)))]

\* url.parseHost on an IP literal whose last "]" is at i (0: there is none)
bracketHost(h, i) ==
    IF i = 0 \/ ~validOptionalPort(SubSeq(h, i + 1, Len(h)))
    THEN [ok |-> FALSE, host |-> <<>>]
    ELSE zoneHost(h, i, IndexOfPct25(SubSeq(h, 1, i - 1)))

\* url.parseHost on a host that is no IP literal, its last ":" at i
plainHost(h, i) ==
    IF i # 0 /\ ~validOptionalPort(SubSeq(h, i, Len(h)))
    THEN [ok |-> FALSE, host |-> <<>>]
    ELSE unescapeHost(h)

\* url.parseHost: [ok, host]
parseHost(h) ==
    IF Len(h) > 0 /\ h[1] = "[" THEN bracketHost(h, LastIndexOf(h, "]"))
    ELSE plainHost(h, LastIndexOf(h, ":"))

\* url.parseAuthority, the last "@" at i (0: no userinfo), once the host is
\* parsed: [ok, user, host]
parseUser(authority, i, h) ==
    IF i = 0 THEN [ok |-> h.ok, user |-> NoUser, host |-> h.host]
    ELSE IF \/ ~h.ok
            \/ ~validUserinfo(SubSeq(authority, 1, i - 1))
            \/ escapeError(SubSeq(authority, 1, i - 1), "userPassword")
    THEN [ok |-> FALSE, user |-> NoUser, host |-> <<>>]
    ELSE [ok |-> TRUE,
          user |-> [set |-> TRUE,
                    username |->
                        unescape(CutBefore(SubSeq(authority, 1, i - 1), ":")),
                    password |->
                        unescape(CutAfter(SubSeq(authority, 1, i - 1), ":")),
                    passwordSet |->
                        IndexOf(SubSeq(authority, 1, i - 1), ":") # 0],
          host |-> h.host]

\* url.parseAuthority, the last "@" at i (0: there is none)
parseAuthorityAt(authority, i) ==
    parseUser(authority, i, parseHost(SubSeq(authority, i + 1, Len(authority))))

\* url.parseAuthority
parseAuthority(authority) == parseAuthorityAt(authority, LastIndexOf(authority, "@"))

\* url.Parse, the end: the fragment is set on the URL parsed from the part
\* before "#"
withFragment(u, frag) ==
    IF frag = <<>> THEN [ok |-> TRUE, url |-> u]
    ELSE IF escapeError(frag, "fragment") THEN NoParse
    ELSE [ok |-> TRUE, url |-> setFragmentTo(u, frag, unescape(frag))]

\* url.parse, the end: setPath(rest)
withPath(u, rest, frag) ==
    IF escapeError(rest, "path") THEN NoParse
    ELSE withFragment(setPath(u, rest), frag)

\* url.parse: the authority a is parsed and rest is the path
withAuthority(u, a, rest, frag) ==
    IF ~a.ok THEN NoParse
    ELSE withPath([u EXCEPT !.user = a.user, !.host = a.host], rest, frag)

\* url.parse, on the part after the scheme and before the query: an opaque
\* URL, or the authority, when there is one, and the path
parsePath(u, rest, frag) ==
    LET rooted == Len(rest) > 0 /\ rest[1] = Sep
        hasAuth == HasPrefix2(rest, Sep)
                       /\ (u.scheme # <<>> \/ ~(Len(rest) >= 3 /\ rest[3] = Sep))
        auth == CutBefore(SubSeq(rest, 3, Len(rest)), Sep)
    IN  IF ~rooted /\ u.scheme # <<>>
        THEN withFragment([u EXCEPT !.opaque = rest], frag)
        ELSE IF ~rooted /\ IndexOf(CutBefore(rest, Sep), ":") # 0
        THEN NoParse
        ELSE withAuthority(
                 [u EXCEPT !.omitHost = ~hasAuth /\ u.scheme # <<>> /\ rooted],
                 IF hasAuth THEN parseAuthority(auth)
                 ELSE [ok |-> TRUE, user |-> NoUser, host |-> <<>>],
                 IF hasAuth THEN SubSeq(rest, 3 + Len(auth), Len(rest))
                 ELSE rest,
                 frag)

\* url.parse, on the part after the scheme: a lone trailing "?" forces an
\* empty query, else the query is what follows the first "?"
parseQuery(scheme, rest, frag) ==
    LET forced == HasSuffixChar(rest, "?") /\ CountOf(rest, "?") = 1
    IN  parsePath([NoURL EXCEPT !.scheme = scheme,
                                !.forceQuery = forced,
                                !.query = IF forced THEN <<>>
                                          ELSE CutAfter(rest, "?")],
                  IF forced THEN SubSeq(rest, 1, Len(rest) - 1)
                  ELSE CutBefore(rest, "?"),
                  frag)

\* url.parse, on the part before the fragment once getScheme has given the
\* length sl of the scheme: the scheme is taken off and lower-cased
parseScheme(sl, nofrag, frag) ==
    IF sl = -1 THEN NoParse
    ELSE parseQuery(IF sl > 0 THEN ToLower(SubSeq(nofrag, 1, sl)) ELSE <<>>,
                    IF sl > 0 THEN SubSeq(nofrag, sl + 2, Len(nofrag))
                    ELSE nofrag,
                    frag)

\* url.Parse, on the parts before and after "#"
parseNoFrag(nofrag, frag) ==
    IF stringContainsCTLByte(nofrag) THEN NoParse
    ELSE IF nofrag = Star THEN withFragment([NoURL EXCEPT !.path = Star], frag)
    ELSE parseScheme(SchemeLen(nofrag), nofrag, frag)

\* url.Parse(raw): [ok, url]
ParseURL(raw) == parseNoFrag(CutBefore(raw, "#"), CutAfter(raw, "#"))

\* Userinfo.String()
userString(user) ==
    escape(user.username, "userPassword")
        \o (IF user.passwordSet
            THEN <<":">> \o escape(user.password, "userPassword") ELSE <<>>)

\* URL.String(): the scheme and the authority
stringHead(u) ==
    (IF u.scheme # <<>> THEN u.scheme \o <<":">> ELSE <<>>)
        \o (IF /\ u.scheme # <<>> \/ u.host # <<>> \/ u.user.set
               /\ ~(u.omitHost /\ u.host = <<>> /\ ~u.user.set)
            THEN (IF u.host # <<>> \/ u.path # <<>> \/ u.user.set
                  THEN <<Sep, Sep>> ELSE <<>>)
                     \o (IF u.user.set THEN userString(u.user) \o <<"@">>
                         ELSE <<>>)
                     \o escape(u.host, "host")
            ELSE <<>>)

\* URL.String(): the query and the fragment
stringTail(u) ==
    (IF u.forceQuery \/ u.query # <<>> THEN <<"?">> \o u.query ELSE <<>>)
        \o (IF u.frag # <<>> THEN <<"#">> \o EscapedFragment(u) ELSE <<>>)

\* URL.String(): the escaped path after what is written so far
stringPath(u, head, path) ==
    head \o (IF path # <<>> /\ path[1] # Sep /\ u.host # <<>> THEN <<Sep>>
             ELSE IF head = <<>> /\ IndexOf(CutBefore(path, Sep), ":") # 0
             THEN <<".", Sep>>
             ELSE <<>>)
         \o path

\* URL.String()
String(u) ==
    (IF u.opaque # <<>>
     THEN (IF u.scheme # <<>> THEN u.scheme \o <<":">> ELSE <<>>) \o u.opaque
     ELSE stringPath(u, stringHead(u), EscapedPath(u)))
        \o stringTail(u)

RECURSIVE ResolveElems(_, _, _)
\* url.resolvePath's loop over the elements of the merged path, dst being
\* what is written so far, after the leading "/": "." is dropped, ".."
\* removes the element written last
ResolveElems(elems, dst, first) ==
    IF elems = <<>> THEN dst
    ELSE LET e == Head(elems)
         IN  IF e = Dot THEN ResolveElems(Tail(elems), dst, FALSE)
             ELSE IF e = DotDot
             THEN IF LastSep(Tail(dst)) = 0
                  THEN ResolveElems(Tail(elems), <<Sep>>, TRUE)
                  ELSE ResolveElems(Tail(elems),
                                    SubSeq(dst, 1, LastSep(Tail(dst))),
                                    first)
             ELSE ResolveElems(Tail(elems),
                               dst \o (IF first THEN <<>> ELSE <<Sep>>) \o e,
                               FALSE)

\* url.resolvePath, the end: a "/" after a last element "." or "..", and
\* one "/" of two leading ones taken off
resolved(r, last) ==
    LET r0 == r \o (IF last = Dot \/ last = DotDot THEN <<Sep>> ELSE <<>>)
    IN  IF HasPrefix2(r0, Sep) THEN Tail(r0) ELSE r0

\* url.resolvePath on the merged path
resolveFull(full) ==
    IF full = <<>> THEN <<>>
    ELSE resolved(ResolveElems(Split(full), <<Sep>>, TRUE),
                  Split(full)[Len(Split(full))])

\* url.resolvePath(base, ref)
ResolvePath(base, ref) ==
    resolveFull(IF ref = <<>> THEN base
                ELSE IF ref[1] # Sep THEN SubSeq(base, 1, LastSep(base)) \o ref
                ELSE ref)

\* URL.ResolveReference: the reference has a scheme, a host or a user of
\* its own
absolute(ref) == ref.scheme # <<>> \/ ref.host # <<>> \/ ref.user.set

\* URL.ResolveReference, the end: url is the reference with what it
\* inherits of scheme, query and fragment, and rp its escaped path
resolveRelative(base, ref, url, rp) ==
    IF ~absolute(ref) /\ ref.opaque # <<>>
    THEN [url EXCEPT !.user = NoUser, !.host = <<>>, !.path = <<>>]
    ELSE IF ~absolute(ref) /\ ref.path = <<>> /\ base.opaque # <<>>
    THEN [url EXCEPT !.opaque = base.opaque, !.user = NoUser,
                     !.host = <<>>, !.path = <<>>]
    ELSE setPath(IF absolute(ref) THEN url
                 ELSE [url EXCEPT !.host = base.host, !.user = base.user],
                 ResolvePath(IF absolute(ref) THEN rp ELSE EscapedPath(base),
                             IF absolute(ref) THEN <<>> ELSE rp))

\* URL.ResolveReference: the reference with the base's scheme when it has
\* none, and, when it is relative and not opaque, the base's query and
\* fragment when it has no path and no query
inherited(base, ref) ==
    LET url == [ref EXCEPT !.scheme = IF ref.scheme = <<>> THEN base.scheme
                                      ELSE ref.scheme]
    IN  IF /\ ~absolute(ref)
           /\ ref.opaque = <<>>
           /\ ref.path = <<>> /\ ~ref.forceQuery /\ ref.query = <<>>
        THEN IF ref.frag = <<>>
             THEN [url EXCEPT !.query = base.query, !.frag = base.frag,
                              !.rawfrag = base.rawfrag]
             ELSE [url EXCEPT !.query = base.query]
        ELSE url

\* URL.ResolveReference(ref)
ResolveReference(base, ref) ==
    resolveRelative(base, ref, inherited(base, ref), EscapedPath(ref))

\* the parsed reference r, when it parsed, resolved against base
resolveParsed(base, r) ==
    IF r.ok THEN [ok |-> TRUE, url |-> ResolveReference(base, r.url)] ELSE r

\* URL.Parse(ref) of base: [ok, url]
BaseParse(base, raw) == resolveParsed(base, ParseURL(raw))

----------------------------------------------------------------------------
(* The downloader's state                                                  *)

VARIABLES
    site,       \* the server: what a GET of each URL string returns
    maxDepth,   \* d.maxDepth
    limit,      \* d.concurrencyLimit, the capacity of d.sem
    startURL,   \* base in main: the parsed start URL
    host,       \* d.host
    rootDir,    \* d.rootDir
    visited,    \* d.visited: the set of URL strings mapped to true
    visitedMu,  \* d.visitedMu: 0 when unlocked, else the task holding it
    sem,        \* d.sem: the number of values in the channel
    wg,         \* d.wg: the WaitGroup counter
    tasks,      \* the goroutines started by download, in spawn order
    files,      \* local path -> the tasks that wrote the file, in order
    gets,       \* URL string -> number of GET requests sent for it
    faults,     \* number of failures injected so far
    mainpc,     \* where main is
    crashed,    \* the process has exited on an unrecovered panic
    rw          \* the link rewriter run on one document on its own

vars == <<site, maxDepth, limit, startURL, host, rootDir, visited, visitedMu,
          sem, wg, tasks, files, gets, faults, mainpc, crashed, rw>>

----------------------------------------------------------------------------
(* Path mapper, link classifier, link rewriter                             *)

IndexHTML == <<"i", "n", "d", "e", "x", ".", "h", "t", "m", "l">>

\* The methods of downloader below take the receiver d as their first
\* parameter; they read d.host and d.rootDir only.

\* makeLocalPath when the extension test is done on the URL path alone
makeLocalPathExtOfURL(d, u) ==
    LET path == Join(d.rootDir, Clean(u.path))
    IN  IF u.path = <<>> \/ HasSuffixSep(u.path) \/ Ext(u.path) = <<>>
        THEN Join(path, IndexHTML)
        ELSE path

\* downloader.makeLocalPath
makeLocalPath(d, u) ==
    LET path == Join(d.rootDir, Clean(u.path))
    IN  IF u.path = <<>> \/ HasSuffixSep(u.path) \/ Ext(path) = <<>>
        THEN Join(path, IndexHTML)
        ELSE path

\* A parsed document is the pre-order list of its nodes (traverse visits
\* them in that order); a node is [type, data, attr], attr a list of
\* [key, val].
Href == <<"h", "r", "e", "f">>
Src == <<"s", "r", "c">>

\* the attribute both walks look at for a tag; <<>> for any other tag
\* (the switch on n.Data)
attrKeyOf(data) ==
    IF data \in {"a", "link"} THEN Href
    ELSE IF data \in {"script", "img"} THEN Src
    ELSE <<>>

\* collectLinks: whether the element's links are PAGE links
isPageLink(data) == data = "a"

\* collectLinks, lines 256-266, for the result r of base.Parse: the link
\* is dropped when it did not parse, is off the host or has another scheme
\* than http and https
keep(d, base, r) ==
    LET scheme == IF r.url.scheme = <<>> THEN base.scheme ELSE r.url.scheme
    IN  IF ~r.ok THEN r
        ELSE IF r.url.host # d.host \/ (scheme # Http /\ scheme # Https)
        THEN [ok |-> FALSE, url |-> r.url]
        ELSE [ok |-> TRUE, url |-> [r.url EXCEPT !.scheme = scheme, !.frag = <<>>]]

\* collectLinks, lines 254-266: the absolute URL of an attribute value when
\* it resolves and is kept; [ok, url]
keptLink(d, base, val) == keep(d, base, BaseParse(base, val))

\* the first attribute of the node, from index i on, that has the key and
\* yields a kept link (the loop over n.Attr with continue and break);
\* 0 when there is none
RECURSIVE firstKept(_, _, _, _, _)
firstKept(d, base, attr, key, i) ==
    IF i > Len(attr) THEN 0
    ELSE IF attr[i].key = key /\ keptLink(d, base, attr[i].val).ok THEN i
    ELSE firstKept(d, base, attr, key, i + 1)

\* lines 269-274: the link appended for attribute i of the node, none
\* when i is 0
linkAt(d, base, n, i) ==
    IF i = 0 THEN <<>> ELSE <<keptLink(d, base, n.attr[i].val).url>>

\* the link one node contributes: <<>> or <<url>>
nodeLink(d, base, n) ==
    IF n.type # "element" \/ attrKeyOf(n.data) = <<>> THEN <<>>
    ELSE linkAt(d, base, n, firstKept(d, base, n.attr, attrKeyOf(n.data), 1))

RECURSIVE collect(_, _, _, _)
\* the links of the nodes of doc, pages (TRUE) or resources (FALSE)
collect(d, doc, base, wantPages) ==
    IF doc = <<>> THEN <<>>
    ELSE (IF isPageLink(Head(doc).data) = wantPages
          THEN nodeLink(d, base, Head(doc)) ELSE <<>>)
         \o collect(d, Tail(doc), base, wantPages)

\* downloader.collectLinks
collectLinks(d, doc, base) ==
    [resources |-> collect(d, doc, base, FALSE),
     pages |-> collect(d, doc, base, TRUE)]

\* the directory rewriteLinks makes links relative to, when it is taken to
\* be the document's path itself
relBaseIsFile(currentLocalPath) == currentLocalPath

\* the directory rewriteLinks makes links relative to (line 312)
relBase(currentLocalPath) == Dir(currentLocalPath)

\* a host test that lets every URL pass
onHostAny(d, u) == TRUE

\* line 305: absURL.Host is d.host
onHost(d, u) == u.host = d.host

\* rewriteLinks, lines 305-315, for the result r of base.Parse: the
\* relative path to the local path of the URL, when it parsed, is on the
\* host and a relative path exists; [ok, path]
relTo(d, r, currentLocalPath) ==
    IF ~r.ok \/ ~onHost(d, r.url) THEN [ok |-> FALSE, path |-> <<>>]
    ELSE Rel(relBase(currentLocalPath), makeLocalPath(d, r.url))

\* rewriteLinks, lines 303-315: the new value for an attribute value
rewritten(d, base, val, currentLocalPath) ==
    relTo(d, BaseParse(base, val), currentLocalPath)

RECURSIVE firstRewritten(_, _, _, _, _, _)
\* the first attribute from index i on that has the key and is rewritten
firstRewritten(d, base, attr, key, cur, i) ==
    IF i > Len(attr) THEN 0
    ELSE IF attr[i].key = key /\ rewritten(d, base, attr[i].val, cur).ok THEN i
    ELSE firstRewritten(d, base, attr, key, cur, i + 1)

\* line 318: the node with the value of attribute i replaced; the node
\* itself when i is 0
setAt(d, base, n, cur, i) ==
    IF i = 0 THEN n
    ELSE [n EXCEPT !.attr[i].val = rewritten(d, base, n.attr[i].val, cur).path]

\* rewriteLinks on one node
rewriteNode(d, base, n, cur) ==
    IF n.type # "element" \/ attrKeyOf(n.data) = <<>> THEN n
    ELSE setAt(d, base, n, cur,
               firstRewritten(d, base, n.attr, attrKeyOf(n.data), cur, 1))

\* downloader.rewriteLinks: the document after the walk
rewriteLinks(d, doc, base, currentLocalPath) ==
    [k \in 1..Len(doc) |-> rewriteNode(d, base, doc[k], currentLocalPath)]

----------------------------------------------------------------------------
(* The sites the model mirrors: what the server returns for each URL       *)

MaxDepth == 2       \* maxDepth ranges over 0..MaxDepth
MaxLimit == 2       \* the concurrency limit ranges over 1..MaxLimit
MaxFaults == 1      \* at most this many injected failures in one run

StatusOK == 200

Origin == Https \o <<":", "/", "/", "h">>
PlainOrigin == Http \o <<":", "/", "/", "h">>

Elem(data, key, val) ==
    [type |-> "element", data |-> data, attr |-> <<[key |-> key, val |-> val]>>]
Text == [type |-> "text", data |-> "t", attr |-> <<>>]

HTML(doc) == [html |-> TRUE, doc |-> doc]
Binary == [html |-> FALSE, doc |-> <<>>]

\* a diamond (/ -> /a -> /c, / -> /b -> /c), a cycle (/b -> /), a page that
\* links to itself (#t) and an off-host link
SiteDiamond ==
    [start |-> Origin \o <<"/">>,
     docs |->
        (Origin \o <<"/">> :>
            HTML(<<Elem("a", Href, <<"/", "a">>), Elem("a", Href, <<"b">>),
                   Elem("a", Href, <<"#", "t">>), Text,
                   Elem("a", Href, <<"/", "/", "o", "/", "x">>)>>))
        @@ (Origin \o <<"/", "a">> :> HTML(<<Elem("a", Href, <<"/", "c">>)>>))
        @@ (Origin \o <<"/", "b">> :>
            HTML(<<Elem("a", Href, <<"c">>), Elem("a", Href, <<"/">>)>>))
        @@ (Origin \o <<"/", "c">> :> HTML(<<Text>>))]

\* /c is one link from the start page and also two links from it through
\* /b; /d is linked from /c only and has an image
SiteChain ==
    [start |-> <<"/", "/", "h">>,
     docs |->
        (Origin :>
            HTML(<<Elem("a", Href, <<"/", "b">>), Elem("a", Href, <<"/", "c">>)>>))
        @@ (Origin \o <<"/", "b">> :> HTML(<<Elem("a", Href, <<"/", "c">>)>>))
        @@ (Origin \o <<"/", "c">> :> HTML(<<Elem("a", Href, <<"/", "d">>)>>))
        @@ (Origin \o <<"/", "d">> :>
            HTML(<<Elem("img", Src, <<"/", "i", ".", "p">>)>>))
        @@ (Origin \o <<"/", "i", ".", "p">> :> Binary)]

\* URLs that differ in query string, a mailto link, a link that does not
\* parse, and a directory page /d/ that links to /d over plain http, which
\* the server does not have
SiteAlias ==
    [start |-> Origin \o <<"/", "#", "s">>,
     docs |->
        (Origin \o <<"/">> :>
            HTML(<<Elem("link", Href, <<"/", "s", ".", "c", "?", "1">>),
                   Elem("script", Src, <<"s", ".", "c", "?", "2">>),
                   Elem("a", Href, <<"m", ":", "x">>),
                   Elem("img", Src, <<"%">>),
                   Elem("a", Href, <<"d", "/">>)>>))
        @@ (Origin \o <<"/", "s", ".", "c", "?", "1">> :> Binary)
        @@ (Origin \o <<"/", "s", ".", "c", "?", "2">> :> Binary)
        @@ (Origin \o <<"/", "d", "/">> :>
            HTML(<<Elem("a", Href, PlainOrigin \o <<"/", "d">>)>>))]

\* a start URL with an upper-case scheme and a fragment, whose page links
\* to an anchor of its own and embeds /r, which the server sends as HTML and
\* which embeds the page
SiteAnchor ==
    [start |-> <<"H", "T", "T", "P", "S", ":", "/", "/", "h", "/", "#", "s">>,
     docs |->
        (Origin \o <<"/">> :>
            HTML(<<Elem("a", Href, <<"#", "t">>),
                   Elem("script", Src, <<"r">>)>>))
        @@ (Origin \o <<"/", "r">> :> HTML(<<Elem("script", Src, <<"/">>)>>))]

\* a start URL that does not parse
SiteBad == [start |-> <<"%">>, docs |-> <<>>]

Sites == [diamond |-> SiteDiamond, chain |-> SiteChain, alias |-> SiteAlias,
          anchor |-> SiteAnchor, bad |-> SiteBad]

\* the resource a GET of u asks the server for: the fragment is not sent,
\* the user goes into a header, the server decodes the path and takes an
\* empty query for none
requested(u) ==
    [u EXCEPT !.frag = <<>>, !.rawfrag = <<>>, !.user = NoUser,
              !.rawpath = <<>>, !.forceQuery = FALSE]

\* what the server of site s returns for a GET of u: the request carries
\* no fragment
ServeAt(s, u) ==
    LET k == String(requested(u))
    IN  IF k \in DOMAIN Sites[s].docs
        THEN [status |-> StatusOK, html |-> Sites[s].docs[k].html,
              doc |-> Sites[s].docs[k].doc]
        ELSE [status |-> 404, html |-> TRUE, doc |-> <<>>]

Serve(u) == ServeAt(site, u)

----------------------------------------------------------------------------
(* main and the goroutine of download                                      *)

\* main, lines 71-73: a URL without scheme gets https
defaultScheme(u) == IF u.scheme = <<>> THEN [u EXCEPT !.scheme = Https] ELSE u

\* main, lines 67-73, once url.Parse has returned r: [ok, base]
baseOfParsed(r) ==
    IF r.ok THEN [ok |-> TRUE, url |-> defaultScheme(r.url)] ELSE r

\* main, lines 67-73: whether the start URL parses and, when it does, base:
\* the parsed URL, its scheme defaulted to https
baseOf(raw) == baseOfParsed(ParseURL(raw))

\* the same for the start URL of each site
Starts == [s \in DOMAIN Sites |-> baseOf(Sites[s].start)]

\* main, lines 77-78: d.host and d.rootDir are the host of base
downloaderFor(base) == [host |-> base.host, rootDir |-> base.host]

\* the downloader main sets up for a start URL
downloaderOf(raw) == downloaderFor(baseOf(raw).url)

\* the elements of a list
Range(l) == {l[i] : i \in 1..Len(l)}

RECURSIVE Reach(_, _, _)
\* the URLs download can be called with on site s: the start URL and, n
\* times over, the links of the documents served for the URLs in U
Reach(s, U, n) ==
    IF n = 0 THEN U
    ELSE Reach(s,
               U \cup UNION {
                   Range(collect(downloaderOf(Sites[s].start),
                                 ServeAt(s, u).doc, u, FALSE))
                   \cup Range(collect(downloaderOf(Sites[s].start),
                                      ServeAt(s, u).doc, u, TRUE)) : u \in U},
               n - 1)

\* lines 134, 162 and 171 for URL u with parsed document doc and local
\* path path
planOfDoc(d, doc, u, path) ==
    [localPath |-> path,
     links |-> collectLinks(d, doc, u),
     rewritten |-> rewriteLinks(d, doc, u, path)]

\* the same for the document site s serves for u
planOfURL(s, d, u) == planOfDoc(d, ServeAt(s, u).doc, u, makeLocalPath(d, u))

\* the same for every URL of U, by URL string
planOfSite(s, d, U) ==
    [k \in {String(u) : u \in U} |->
        planOfURL(s, d, CHOOSE v \in U : String(v) = k)]

\* the URLs download can be called with at each site: the start URL and the
\* links collectLinks returns for the documents served for them
Reached ==
    [s \in DOMAIN Sites |->
        Reach(s, {baseOf(Sites[s].start).url},
              Cardinality(DOMAIN Sites[s].docs) + 1)]

\* For each site and each URL download can be called with there, by URL
\* string: what makeLocalPath, collectLinks (on the document as parsed) and
\* rewriteLinks give for it. The actions read the three from here; the
\* values depend on the site alone.
Plan ==
    [s \in DOMAIN Sites |->
        planOfSite(s, downloaderOf(Sites[s].start), Reached[s])]

\* line 104: u.String() of every URL download can be called with at a site
URLStrings == [s \in DOMAIN Sites |-> [u \in Reached[s] |-> String(u)]]

NoRewrite ==
    [pc |-> "off", base |-> NoURL, doc |-> <<>>, localPath |-> <<>>, out |-> <<>>]

\* the state when main reaches line 86: new() has run, the flags are read,
\* the start URL is parsed, d.host and d.rootDir are set
Init ==
    /\ site \in DOMAIN Sites
    /\ maxDepth \in 0..MaxDepth
    /\ limit \in 1..MaxLimit
    /\ startURL = Starts[site].url
    /\ host = startURL.host
    /\ rootDir = startURL.host
    /\ visited = {}
    /\ visitedMu = 0
    /\ sem = 0
    /\ wg = 0
    /\ tasks = <<>>
    /\ files = <<>>
    /\ gets = <<>>
    /\ faults = 0
    /\ mainpc = "start"
    /\ crashed = FALSE
    /\ rw = NoRewrite

\* lines 77-78: the downloader d, as far as makeLocalPath and the link
\* walks read it
D == [host |-> host, rootDir |-> rootDir]

\* the goroutine download(u, depth) starts, before it has run
NewTask(u, depth, kind, parent) ==
    [url |-> u, depth |-> depth, kind |-> kind, parent |-> parent,
     pc |-> "start", urlStr |-> <<>>, status |-> 0, html |-> FALSE,
     localPath |-> <<>>, doc |-> <<>>, out |-> "", wrote |-> FALSE]

\* download called for each URL of a list: wg.Add(1) and go, per URL
spawned(urls, depth, kind, parent) ==
    [i \in 1..Len(urls) |-> NewTask(urls[i], depth, kind, parent)]

\* a resource link followed one level deeper, like a page link
resourceDepthDeeper(depth) == depth + 1

\* line 167: a resource link is followed at the depth of its document
resourceDepth(depth) == depth

\* line 181: a page link is followed one level deeper
pageDepth(depth) == depth + 1

\* line 100 with an off-by-one bound
OverDepthLoose(depth) == depth > maxDepth + 1

\* line 100
OverDepth(depth) == depth > maxDepth

\* a visited mutex that does not exclude
MuFreeAlways == TRUE

\* d.visitedMu.Lock() can return
MuFree == visitedMu = 0

\* a semaphore send that never blocks
SemHasRoomAlways == TRUE

\* d.sem <- struct{}{} can proceed: the channel buffer is not full
SemHasRoom == sem < limit

\* a status test on the 2xx class
IsOK2xx(status) == status \in 200..299

\* line 128: resp.StatusCode == http.StatusOK
IsOK(status) == status = StatusOK

\* a Wait that returns one task early
WaitReturnsEarly(w) == w <= 1

\* d.wg.Wait() returns
WaitReturns(w) == w = 0

\* a return that leaves the slot taken
ReleasedNever(s) == s

\* a return that gives two slots back
ReleasedTwice(s) == s - 2

\* the deferred <-d.sem
Released(s) == s - 1

\* line 104: urlStr of the task, also before the task has computed it
Key(t) == URLStrings[site][tasks[t].url]

\* line 134: localPath of the task
localPathOf(t) == Plan[site][Key(t)].localPath

\* line 162: the links collectLinks returns for the task's document
resourcesOf(t) == Plan[site][Key(t)].links.resources
pagesOf(t) == Plan[site][Key(t)].links.pages

\* line 171: the task's document after rewriteLinks
rewrittenOf(t) == Plan[site][Key(t)].rewritten

\* how often f maps k, 0 when it does not
Count(f, k) == IF k \in DOMAIN f THEN f[k] ELSE 0
Incr(f, k) == [x \in DOMAIN f \cup {k} |-> IF x = k THEN Count(f, k) + 1 ELSE f[x]]

\* the tasks that wrote path p, in order
Writers(f, p) == IF p \in DOMAIN f THEN f[p] ELSE <<>>
Written(f, p, t) ==
    [x \in DOMAIN f \cup {p} |-> IF x = p THEN Append(Writers(f, p), t) ELSE f[x]]

\* the goroutine returns before it took a slot: deferred wg.Done
Finish(t, out) ==
    /\ tasks' = [tasks EXCEPT ![t].pc = "done", ![t].out = out]
    /\ wg' = wg - 1

\* the goroutine returns holding a slot, its record being r: deferred
\* <-d.sem and wg.Done
Return(t, r, out) ==
    /\ tasks' = [tasks EXCEPT ![t] = [r EXCEPT !.pc = "done", !.out = out]]
    /\ sem' = Released(sem)
    /\ wg' = wg - 1

\* main, lines 68-70 and 81-83: log.Fatal when the start URL does not
\* parse or the root directory cannot be made
MainFatal ==
    /\ ~crashed
    /\ mainpc = "start"
    /\ \/ ~Starts[site].ok /\ UNCHANGED faults
       \/ Starts[site].ok /\ faults < MaxFaults /\ faults' = faults + 1
    /\ mainpc' = "fatal"
    /\ UNCHANGED <<site, maxDepth, limit, startURL, host, rootDir, visited,
                   visitedMu, sem, wg, tasks, files, gets, crashed, rw>>

\* main, line 86: d.download(base, 0)
MainDownload ==
    /\ ~crashed
    /\ mainpc = "start"
    /\ Starts[site].ok
    /\ tasks' = tasks \o spawned(<<startURL>>, 0, "seed", 0)
    /\ wg' = wg + 1
    /\ mainpc' = "wait"
    /\ UNCHANGED <<site, maxDepth, limit, startURL, host, rootDir, visited,
                   visitedMu, sem, files, gets, faults, crashed, rw>>

\* main, lines 89-91: d.wg.Wait() returns and the run reports completion
MainWait ==
    /\ ~crashed
    /\ mainpc = "wait"
    /\ WaitReturns(wg)
    /\ mainpc' = "done"
    /\ UNCHANGED <<site, maxDepth, limit, startURL, host, rootDir, visited,
                   visitedMu, sem, wg, tasks, files, gets, faults, crashed, rw>>

\* the depth check placed after the insert into the visited map
ReturnOverDepthMarked(t) ==
    /\ ~crashed
    /\ tasks[t].pc = "start"
    /\ OverDepth(tasks[t].depth)
    /\ visited' = visited \cup {Key(t)}
    /\ Finish(t, "overdepth")
    /\ UNCHANGED <<site, maxDepth, limit, startURL, host, rootDir,
                   visitedMu, sem, files, gets, faults, mainpc, crashed, rw>>

\* lines 100-102: a task beyond the depth bound returns at once
ReturnOverDepth(t) ==
    /\ ~crashed
    /\ tasks[t].pc = "start"
    /\ OverDepth(tasks[t].depth)
    /\ Finish(t, "overdepth")
    /\ UNCHANGED <<site, maxDepth, limit, startURL, host, rootDir, visited,
                   visitedMu, sem, files, gets, faults, mainpc, crashed, rw>>

\* lines 106-110 with urlStr computed: lock the visited map and look the
\* URL up; a URL already there unlocks and returns
lookedUp(t, urlStr) ==
    IF urlStr \in visited
    THEN /\ tasks' = [tasks EXCEPT ![t].pc = "done", ![t].out = "dup",
                                   ![t].urlStr = urlStr]
         /\ wg' = wg - 1
         /\ UNCHANGED visitedMu
    ELSE /\ visitedMu' = t
         /\ tasks' = [tasks EXCEPT ![t].pc = "claim", ![t].urlStr = urlStr]
         /\ UNCHANGED wg

\* lines 104-110: urlStr := u.String(), then the lookup under the lock
LockVisited(t) ==
    /\ ~crashed
    /\ tasks[t].pc = "start"
    /\ ~OverDepth(tasks[t].depth)
    /\ MuFree
    /\ lookedUp(t, String(tasks[t].url))
    /\ UNCHANGED <<site, maxDepth, limit, startURL, host, rootDir, visited,
                   sem, files, gets, faults, mainpc, crashed, rw>>

\* the map keeps the last URL only
insertedAlone(v, k) == {k}

\* line 111: d.visited[urlStr] = true
inserted(v, k) == v \cup {k}

\* lines 111-112: record the URL and unlock
MarkVisited(t) ==
    /\ ~crashed
    /\ tasks[t].pc = "claim"
    /\ visited' = inserted(visited, tasks[t].urlStr)
    /\ visitedMu' = 0
    /\ tasks' = [tasks EXCEPT ![t].pc = "acquire"]
    /\ UNCHANGED <<site, maxDepth, limit, startURL, host, rootDir, sem, wg,
                   files, gets, faults, mainpc, crashed, rw>>

\* line 115: take a slot of the semaphore
Acquire(t) ==
    /\ ~crashed
    /\ tasks[t].pc = "acquire"
    /\ SemHasRoom
    /\ sem' = sem + 1
    /\ tasks' = [tasks EXCEPT ![t].pc = "get"]
    /\ UNCHANGED <<site, maxDepth, limit, startURL, host, rootDir, visited,
                   visitedMu, wg, files, gets, faults, mainpc, crashed, rw>>

\* lines 121-131 when the server has resp for the URL of the task
responded(t, resp) ==
    \E status \in {resp.status} \cup (IF faults < MaxFaults THEN {204} ELSE {}) :
        LET r == [tasks[t] EXCEPT !.status = status, !.html = resp.html]
        IN  /\ faults' = faults + (IF status = resp.status THEN 0 ELSE 1)
            /\ IF ~IsOK(status)
               THEN Return(t, r, "status")
               ELSE /\ tasks' = [tasks EXCEPT ![t] = [r EXCEPT !.pc = "prepare"]]
                    /\ UNCHANGED <<sem, wg>>

\* line 119, the call: client.Get sends the request for urlStr and waits
\* for the answer, the task holding its slot
SendGet(t) ==
    /\ ~crashed
    /\ tasks[t].pc = "get"
    /\ gets' = Incr(gets, tasks[t].urlStr)
    /\ tasks' = [tasks EXCEPT ![t].pc = "await"]
    /\ UNCHANGED <<site, maxDepth, limit, startURL, host, rootDir, visited,
                   visitedMu, sem, wg, files, faults, mainpc, crashed, rw>>

\* lines 119-131: client.Get returns a response. The server answers as the
\* site says or, as an injected failure, with another status; a status
\* other than 200 ends the task.
Get(t) ==
    /\ ~crashed
    /\ tasks[t].pc = "await"
    /\ responded(t, Serve(tasks[t].url))
    /\ UNCHANGED <<site, maxDepth, limit, startURL, host, rootDir, visited,
                   visitedMu, files, gets, mainpc, crashed, rw>>

\* lines 134-158: the local path is computed and its directories made; a
\* body that is not HTML goes to saveNonHTML and an HTML body is read and
\* parsed. Making the directories or reading the body to parse it can
\* fail.
Prepare(t) ==
    /\ ~crashed
    /\ tasks[t].pc = "prepare"
    /\ \/ /\ tasks' = [tasks EXCEPT ![t].pc = IF tasks[t].html THEN "spawnres"
                                               ELSE "savebin",
                                     ![t].localPath = localPathOf(t),
                                     ![t].doc = Serve(tasks[t].url).doc]
          /\ UNCHANGED <<sem, wg, faults>>
       \/ /\ faults < MaxFaults
          /\ faults' = faults + 1
          /\ Return(t, tasks[t], "mkdir")
       \/ /\ tasks[t].html
          /\ faults < MaxFaults
          /\ faults' = faults + 1
          /\ Return(t, tasks[t], "parse")
    /\ UNCHANGED <<site, maxDepth, limit, startURL, host, rootDir, visited,
                   visitedMu, files, gets, mainpc, crashed, rw>>

\* lines 119-121 when client.Get returns an error and no response: resp is
\* nil and resp.Status is read before err is tested, so the goroutine
\* panics and its deferred calls run (lines 116 and 98). The other
\* goroutines run on until the process exits.
GetNoResponse(t) ==
    /\ ~crashed
    /\ tasks[t].pc = "await"
    /\ faults < MaxFaults
    /\ faults' = faults + 1
    /\ Return(t, tasks[t], "transport")
    /\ UNCHANGED <<site, maxDepth, limit, startURL, host, rootDir, visited,
                   visitedMu, files, gets, mainpc, crashed, rw>>

\* a goroutine has panicked and run its deferred calls
Panicked == \E t \in DOMAIN tasks : tasks[t].out = "transport"

\* the panic was not recovered: the runtime ends the process, main and
\* every goroutine with it
Exit ==
    /\ ~crashed
    /\ Panicked
    /\ crashed' = TRUE
    /\ UNCHANGED <<site, maxDepth, limit, startURL, host, rootDir, visited,
                   visitedMu, sem, wg, tasks, files, gets, faults, mainpc, rw>>

\* lines 119-125 when client.Get returns an error together with a response
\* (a redirect chain the client gave up on): the task returns
GetRedirectError(t) ==
    /\ ~crashed
    /\ tasks[t].pc = "await"
    /\ faults < MaxFaults
    /\ faults' = faults + 1
    /\ Return(t, tasks[t], "redirect")
    /\ UNCHANGED <<site, maxDepth, limit, startURL, host, rootDir, visited,
                   visitedMu, files, gets, mainpc, crashed, rw>>

\* lines 146-147 and 198-203: saveNonHTML creates the file, truncating
\* one that is there, or logs that it could not; then the task returns
\* (lines 148-149)
SaveNonHTML(t) ==
    /\ ~crashed
    /\ tasks[t].pc = "savebin"
    /\ \/ /\ files' = Written(files, tasks[t].localPath, t)
          /\ tasks' = [tasks EXCEPT ![t].pc = "copybin", ![t].wrote = TRUE]
          /\ UNCHANGED <<sem, wg, faults>>
       \/ /\ faults < MaxFaults
          /\ faults' = faults + 1
          /\ Return(t, tasks[t], "saved")
          /\ UNCHANGED files
    /\ UNCHANGED <<site, maxDepth, limit, startURL, host, rootDir, visited,
                   visitedMu, gets, mainpc, crashed, rw>>

\* lines 204 and 148-149: io.Copy has read the body from the network into
\* the file, and the task returns
CopyNonHTML(t) ==
    /\ ~crashed
    /\ tasks[t].pc = "copybin"
    /\ Return(t, tasks[t], "saved")
    /\ UNCHANGED <<site, maxDepth, limit, startURL, host, rootDir, visited,
                   visitedMu, files, gets, faults, mainpc, crashed, rw>>

\* every link of the document, page links too, downloaded before the
\* rewrite
SpawnAllLinks(t) ==
    /\ ~crashed
    /\ tasks[t].pc = "spawnres"
    /\ tasks' = [tasks EXCEPT ![t].pc = "rewrite"]
                   \o spawned(resourcesOf(t), resourceDepth(tasks[t].depth),
                              "resource", t)
                   \o spawned(pagesOf(t), pageDepth(tasks[t].depth), "page", t)
    /\ wg' = wg + Len(resourcesOf(t)) + Len(pagesOf(t))
    /\ UNCHANGED <<site, maxDepth, limit, startURL, host, rootDir, visited,
                   visitedMu, sem, files, gets, faults, mainpc, crashed, rw>>

\* download called for each of urls by task t, which goes on at pc
downloadAll(t, urls, depth, kind, pc) ==
    /\ tasks' = [tasks EXCEPT ![t].pc = pc] \o spawned(urls, depth, kind, t)
    /\ wg' = wg + Len(urls)

\* lines 162-168: download every resource link at the task's own depth
SpawnResources(t) ==
    /\ ~crashed
    /\ tasks[t].pc = "spawnres"
    /\ downloadAll(t, resourcesOf(t), resourceDepth(tasks[t].depth),
                   "resource", "rewrite")
    /\ UNCHANGED <<site, maxDepth, limit, startURL, host, rootDir, visited,
                   visitedMu, sem, files, gets, faults, mainpc, crashed, rw>>

\* the links of the document are left as parsed
RewriteSkipped(t) ==
    /\ ~crashed
    /\ tasks[t].pc = "rewrite"
    /\ tasks' = [tasks EXCEPT ![t].pc = "savehtml"]
    /\ UNCHANGED <<site, maxDepth, limit, startURL, host, rootDir, visited,
                   visitedMu, sem, wg, files, gets, faults, mainpc, crashed, rw>>

\* line 171: rewrite the links of the parsed document
Rewrite(t) ==
    /\ ~crashed
    /\ tasks[t].pc = "rewrite"
    /\ tasks' = [tasks EXCEPT ![t].pc = "savehtml", ![t].doc = rewrittenOf(t)]
    /\ UNCHANGED <<site, maxDepth, limit, startURL, host, rootDir, visited,
                   visitedMu, sem, wg, files, gets, faults, mainpc, crashed, rw>>

\* lines 174-177: saveHTML renders the document to the file; a failure is
\* printed and the task goes on
SaveHTML(t) ==
    /\ ~crashed
    /\ tasks[t].pc = "savehtml"
    /\ \/ /\ files' = Written(files, tasks[t].localPath, t)
          /\ tasks' = [tasks EXCEPT ![t].pc = "spawnpages", ![t].wrote = TRUE]
          /\ UNCHANGED faults
       \/ /\ faults < MaxFaults
          /\ faults' = faults + 1
          /\ tasks' = [tasks EXCEPT ![t].pc = "spawnpages"]
          /\ UNCHANGED files
    /\ UNCHANGED <<site, maxDepth, limit, startURL, host, rootDir, visited,
                   visitedMu, sem, wg, gets, mainpc, crashed, rw>>

\* lines 179-182: download every page link one level deeper. The links are
\* the ones collectLinks returned at line 162, from the document as parsed.
SpawnPages(t) ==
    /\ ~crashed
    /\ tasks[t].pc = "spawnpages"
    /\ downloadAll(t, pagesOf(t), pageDepth(tasks[t].depth), "page", "ret")
    /\ UNCHANGED <<site, maxDepth, limit, startURL, host, rootDir, visited,
                   visitedMu, sem, files, gets, faults, mainpc, crashed, rw>>

\* line 183: the goroutine ends; the deferred calls close the body, give
\* the slot back and tell the WaitGroup
ReturnSaved(t) ==
    /\ ~crashed
    /\ tasks[t].pc = "ret"
    /\ Return(t, tasks[t], "saved")
    /\ UNCHANGED <<site, maxDepth, limit, startURL, host, rootDir, visited,
                   visitedMu, files, gets, faults, mainpc, crashed, rw>>

\* a step of the goroutine of task t
Step(t) ==
    \/ ReturnOverDepth(t)
    \/ LockVisited(t)
    \/ MarkVisited(t)
    \/ Acquire(t)
    \/ SendGet(t)
    \/ Get(t)
    \/ Prepare(t)
    \/ GetNoResponse(t)
    \/ GetRedirectError(t)
    \/ SaveNonHTML(t)
    \/ CopyNonHTML(t)
    \/ SpawnResources(t)
    \/ Rewrite(t)
    \/ SaveHTML(t)
    \/ SpawnPages(t)
    \/ ReturnSaved(t)

Next ==
    \/ MainDownload
    \/ MainFatal
    \/ MainWait
    \/ Exit
    \/ \E t \in DOMAIN tasks : Step(t)

Spec == Init /\ [][Next]_vars

\* the join waits on a scheduler that is only assumed to keep running a
\* program that has a step to take
SpecFair == Init /\ [][Next]_vars /\ WF_vars(Next)

----------------------------------------------------------------------------
(* Properties of the crawl                                                 *)

Tasks == DOMAIN tasks

\* the task passed the visited check (lines 107-110) and did not return
PassedCheck(t) ==
    /\ tasks[t].pc # "start"
    /\ tasks[t].out \notin {"overdepth", "dup"}

\* the task holds a slot of the semaphore: it is between line 115 and its
\* return
Holding(t) ==
    tasks[t].pc \in {"get", "await", "prepare", "savebin", "copybin",
                     "spawnres", "rewrite", "savehtml", "spawnpages", "ret"}

Holders == {t \in Tasks : Holding(t)}

\* the task's GET is in flight: the request is sent and not answered
InFlight(t) == tasks[t].pc = "await"

Children(t) == {c \in Tasks : tasks[c].parent = t}

\* C1: under every interleaving a URL is fetched at most once and no two
\* tasks for one URL both pass the visited check; when the run completes,
\* every URL for which the crawl started a task within the depth limit has
\* been fetched exactly once, however many tasks were started for it
C1_ExactlyOneFetch ==
    /\ \A k \in DOMAIN gets : gets[k] <= 1
    /\ \A t1, t2 \in Tasks :
          t1 # t2 /\ Key(t1) = Key(t2) => ~(PassedCheck(t1) /\ PassedCheck(t2))
    /\ mainpc = "done" =>
          \A t \in Tasks : tasks[t].depth <= maxDepth => Count(gets, Key(t)) = 1

\* a completed run in which one URL was reached within the depth limit by
\* a task that fetched it and by another that found it visited
C1_Witness ==
    /\ mainpc = "done"
    /\ \E t1, t2 \in Tasks :
          /\ t1 # t2
          /\ Key(t1) = Key(t2)
          /\ tasks[t1].depth <= maxDepth
          /\ tasks[t2].depth <= maxDepth
          /\ tasks[t1].out = "saved"
          /\ tasks[t2].out = "dup"
          /\ Count(gets, Key(t1)) = 1

\* C2: in every state at most limit tasks hold a slot, so at most limit
\* GETs are in flight, however many tasks wait for a slot
C2_SlotsBounded ==
    /\ Cardinality(Holders) <= limit
    /\ Cardinality({t \in Tasks : InFlight(t)}) <= limit
    /\ sem <= limit

\* every slot is taken while another task waits for one
C2_Witness ==
    /\ Cardinality(Holders) = limit
    /\ \E t \in Tasks : tasks[t].pc = "acquire"

\* C3 as stated: no PAGE task exists with a depth beyond maxDepth
C3_NoOverDepthTask ==
    \A t \in Tasks : tasks[t].kind = "page" => tasks[t].depth <= maxDepth

\* C3 amended: a PAGE task is spawned for every page link, at most one
\* level beyond maxDepth, and a task beyond maxDepth never passes line
\* 100: it does not claim, take a slot, fetch, write or spawn
C3_OverDepthDiscarded ==
    \A t \in Tasks :
        /\ tasks[t].depth <= maxDepth + 1
        /\ tasks[t].depth > maxDepth =>
              /\ tasks[t].kind = "page"
              /\ tasks[t].pc \in {"start", "done"}
              /\ tasks[t].out \in {"", "overdepth"}
              /\ Key(t) \in DOMAIN gets => \E o \in Tasks : o # t /\ Key(o) = Key(t)
                                                 /\ tasks[o].depth <= maxDepth
              /\ ~tasks[t].wrote
              /\ Children(t) = {}

\* a PAGE task one level beyond maxDepth was spawned and has returned
C3_Witness ==
    \E t \in Tasks :
        /\ tasks[t].kind = "page"
        /\ tasks[t].depth = maxDepth + 1
        /\ tasks[t].out = "overdepth"

\* C4: main reports completion only when every task ever spawned has
\* returned, and the WaitGroup counter is the number of tasks spawned and
\* not yet returned, so it is not zero while a task can still spawn
C4_JoinAfterAllTasks ==
    /\ wg = Cardinality({t \in Tasks : tasks[t].pc # "done"})
    /\ mainpc = "done" => \A t \in Tasks : tasks[t].pc = "done"

\* the run is complete and tasks were spawned by other tasks while main
\* waited
C4_Witness ==
    /\ mainpc = "done"
    /\ \E t \in Tasks : tasks[t].parent # 0 /\ tasks[t].out = "saved"

\* C5: when main gets past its start-up (lines 67-83) and every GET returns
\* a response (the process does not die of a missing one), the run
\* completes: every task has returned, no slot is
\* held and main has reported completion
C5_RunCompletes ==
    <>(crashed \/ mainpc = "fatal" \/ (mainpc = "done" /\ sem = 0
                     /\ \A t \in Tasks : tasks[t].pc = "done"))

\* a run with a single slot completed although a task spawned children
\* while it held the slot
C5_Witness ==
    /\ limit = 1
    /\ mainpc = "done"
    /\ \E t \in Tasks : tasks[t].parent # 0 /\ tasks[t].out = "saved"

\* C6 as stated: a task whose GET got no response ends without a file and
\* without children, and the process lives on
C6_TransportErrorLocal ==
    \A t \in Tasks :
        tasks[t].out = "transport" =>
            /\ ~crashed
            /\ tasks[t].pc = "done"
            /\ ~tasks[t].wrote
            /\ Children(t) = {}

\* C7 as stated: a response with any 2xx status goes on to the save
C7_DecidedBy2xx ==
    \A t \in Tasks :
        tasks[t].status \in 200..299 => tasks[t].out # "status"

\* C7 amended: the status decides by being 200 or not: any other status,
\* 2xx or not, ends the task with no file and no children and its slot
\* given back; 200 goes on to the save
C7_DecidedBy200 ==
    /\ sem = Cardinality(Holders)
    /\ \A t \in Tasks :
          /\ tasks[t].status \notin {0, StatusOK} =>
                /\ tasks[t].pc = "done"
                /\ tasks[t].out = "status"
                /\ ~tasks[t].wrote
                /\ Children(t) = {}
          /\ tasks[t].status = StatusOK =>
                /\ tasks[t].pc \notin {"get", "await"}
                /\ tasks[t].out # "status"

\* a task got a 2xx status other than 200 and ended on it
C7_Witness ==
    \E t \in Tasks :
        /\ tasks[t].status = 204
        /\ tasks[t].pc = "done"
        /\ tasks[t].out = "status"

\* the URL is mapped to an index.html under its path
DirectoryLike(u) ==
    makeLocalPath([host |-> host, rootDir |-> rootDir], u) # Join(rootDir, Clean(u.path))

\* C8 as stated: two tasks write the same local file only when both URLs
\* are directory-like URLs collapsed onto one index file
C8_OneWriterPerFile ==
    \A p \in DOMAIN files :
        \A i, j \in 1..Len(files[p]) :
            i # j => /\ DirectoryLike(tasks[files[p][i]].url)
                     /\ DirectoryLike(tasks[files[p][j]].url)

\* C9: a resource task has the depth of the task that spawned it and a
\* page task that depth plus one; every resource link of a parsed document
\* gets a task; with maxDepth 0 no page task fetches, every fetched URL is
\* the start URL or a resource link, and when the run completes every
\* resource link has been fetched
C9_ResourceSameDepth ==
    /\ \A t \in Tasks :
          /\ tasks[t].kind = "resource" =>
                /\ tasks[t].depth = tasks[tasks[t].parent].depth
                /\ tasks[t].depth <= maxDepth
                /\ mainpc = "done" => Count(gets, Key(t)) = 1
          /\ tasks[t].kind = "page" =>
                tasks[t].depth = tasks[tasks[t].parent].depth + 1
          /\ tasks[t].pc \in {"rewrite", "savehtml", "spawnpages", "ret"} =>
                LET res == collectLinks([host |-> host, rootDir |-> rootDir],
                                        Serve(tasks[t].url).doc,
                                        tasks[t].url).resources
                IN  \A i \in 1..Len(res) :
                        \E c \in Children(t) :
                            tasks[c].kind = "resource" /\ tasks[c].url = res[i]
    /\ maxDepth = 0 =>
          /\ \A t \in Tasks :
                tasks[t].kind = "page" =>
                    tasks[t].pc \in {"start", "done"}
                        /\ tasks[t].out \in {"", "overdepth"}
          /\ \A k \in DOMAIN gets :
                \E t \in Tasks : Key(t) = k /\ tasks[t].kind \in {"seed", "resource"}

\* a completed run with maxDepth 0 whose start document has a page link,
\* discarded, and a resource link, fetched and saved
C9_Witness ==
    /\ maxDepth = 0
    /\ mainpc = "done"
    /\ \E t \in Tasks :
          tasks[t].kind = "page" /\ tasks[t].parent = 1 /\ tasks[t].out = "overdepth"
    /\ \E t \in Tasks :
          tasks[t].kind = "resource" /\ tasks[t].parent = 1 /\ tasks[t].wrote

\* the task took a slot and has returned on an error: a status other than
\* 200, a failed client.Get, MkdirAll or html.Parse, or a failed write
EndedOnError(t) ==
    /\ tasks[t].pc = "done"
    /\ \/ tasks[t].out \in {"status", "redirect", "transport", "mkdir", "parse"}
       \/ tasks[t].out = "saved" /\ ~tasks[t].wrote

\* C13: the slots taken are exactly the slots of the tasks between line 115
\* and their return, so a task gives its slot back once, when it returns,
\* on every path; a task that has done its work can return whatever its
\* children are doing; when the run completes no slot is held
C13_SlotReleasedOnce ==
    /\ sem = Cardinality(Holders)
    /\ \A t \in Tasks :
          (tasks[t].pc = "ret" /\ ~crashed) => ENABLED ReturnSaved(t)
    /\ mainpc = "done" => sem = 0

\* no slot is held although a task that saved its document has a child
\* that has not returned, and another task ended on an error
C13_Witness ==
    /\ sem = 0
    /\ ~Panicked
    /\ \E t \in Tasks :
          /\ tasks[t].out = "saved"
          /\ tasks[t].wrote
          /\ \E c \in Children(t) : tasks[c].pc # "done"
    /\ \E t \in Tasks : EndedOnError(t)

\* the children of task t that were spawned for links of the given kind
ChildrenOfKind(t, kind) == {c \in Children(t) : tasks[c].kind = kind}

\* every link of the list has a child task of t of the given kind
AllSpawned(t, links, kind) ==
    \A i \in 1..Len(links) :
        \E c \in ChildrenOfKind(t, kind) : tasks[c].url = links[i]

\* rewriteLinks has run on the task's document (line 171 is passed)
RewriterRan(t) == tasks[t].pc \in {"savehtml", "spawnpages", "ret"}

\* C14 as stated: when the rewriter has run on a document, all its child
\* tasks, for resource links and for page links, have been spawned
C14_ChildrenBeforeRewrite ==
    \A t \in Tasks :
        RewriterRan(t) =>
            /\ AllSpawned(t, resourcesOf(t), "resource")
            /\ AllSpawned(t, pagesOf(t), "page")

\* C14 amended: the steps run in the order parsed, RESOURCE tasks spawned,
\* rewritten, save attempted, PAGE tasks spawned. Before the resources are
\* spawned the task has no child; from then on every resource link has its
\* task; the document is the parsed one until the rewriter runs and the
\* rewritten one after; no PAGE task of the document exists until the save
\* was attempted, and after the last step every page link has its task
C14_PagesAfterSave ==
    \A t \in Tasks :
        /\ tasks[t].pc = "spawnres" => Children(t) = {}
        /\ tasks[t].pc = "rewrite" =>
              /\ AllSpawned(t, resourcesOf(t), "resource")
              /\ tasks[t].doc = Serve(tasks[t].url).doc
              /\ ~tasks[t].wrote
        /\ RewriterRan(t) =>
              /\ AllSpawned(t, resourcesOf(t), "resource")
              /\ tasks[t].doc = rewrittenOf(t)
        /\ tasks[t].pc \in {"spawnres", "rewrite", "savehtml", "spawnpages"} =>
              ChildrenOfKind(t, "page") = {}
        /\ tasks[t].pc = "savehtml" => ~tasks[t].wrote
        /\ tasks[t].pc = "ret" => AllSpawned(t, pagesOf(t), "page")

\* a document with resource links and page links has been rewritten and
\* saved: its resource tasks exist and none of its page tasks does
C14_Witness ==
    \E t \in Tasks :
        /\ tasks[t].pc = "spawnpages"
        /\ tasks[t].wrote
        /\ tasks[t].doc # Serve(tasks[t].url).doc
        /\ ChildrenOfKind(t, "resource") # {}
        /\ pagesOf(t) # <<>>
        /\ ChildrenOfKind(t, "page") = {}

\* the step of task t that leaves line 174: saveHTML was called on its document
SaveStep(t) == tasks[t].pc = "savehtml" /\ tasks'[t].pc # "savehtml"

\* C15: the save of an HTML document happens after rewriteLinks has
\* completed on its tree: the document handed to saveHTML is the rewritten
\* one and the save does not change it; and the rewrite never waits for a
\* spawned child task: a task at the rewrite can always take that step,
\* whatever its children are doing
C15_SavedAfterRewrite ==
    /\ [](\A t \in Tasks :
             (tasks[t].pc = "rewrite" /\ ~crashed) => ENABLED Rewrite(t))
    /\ [][\A t \in Tasks :
             SaveStep(t) => /\ tasks[t].doc = rewrittenOf(t)
                            /\ tasks'[t].doc = tasks[t].doc]_vars

\* a document whose links the rewrite changed has been saved while a child
\* task spawned for one of its links has not finished
C15_Witness ==
    \E t \in Tasks :
        /\ tasks[t].wrote
        /\ tasks[t].html
        /\ tasks[t].doc = rewrittenOf(t)
        /\ tasks[t].doc # Serve(tasks[t].url).doc
        /\ \E c \in Children(t) : tasks[c].pc # "done"

\* the task has claimed its URL: it is past the check of lines 106-112
Claimed(t) == tasks[t].pc \notin {"start", "claim"} /\ tasks[t].out \notin {"overdepth", "dup"}

\* C16: the Visited Set is empty until the first task runs and no step
\* takes a URL out of it; the URL of every task that claimed it is in the
\* set, also after the task ended on an error; and no URL is fetched twice,
\* so the URL of a failed task is never fetched again
C16_VisitedOnlyGrows ==
    /\ [](tasks = <<>> => visited = {})
    /\ [][visited \subseteq visited']_vars
    /\ [](\A t \in Tasks : Claimed(t) => Key(t) \in visited)
    /\ [](\A t \in Tasks : EndedOnError(t) => Count(gets, Key(t)) <= 1)

\* the task that claimed a URL ended on an error that is no panic,
\* and another task for the same URL found it visited and fetched
\* nothing
C16_Witness ==
    /\ ~Panicked
    /\ \E t1, t2 \in Tasks :
          /\ t1 # t2
          /\ Key(t1) = Key(t2)
          /\ EndedOnError(t1)
          /\ tasks[t2].out = "dup"
          /\ Key(t1) \in visited
          /\ Count(gets, Key(t1)) = 1
          /\ Cardinality(visited) > 1

\* the URL is a normalized absolute URL of the mirror: no fragment, the
\* mirror host, scheme http or https
Normalized(u) ==
    /\ u.frag = <<>>
    /\ u.host = host
    /\ u.scheme \in {Http, Https}

\* the URLs differ in their fragment and in nothing else
SameButFragment(u1, u2) ==
    /\ u1.frag # u2.frag
    /\ [u1 EXCEPT !.frag = <<>>, !.rawfrag = <<>>]
          = [u2 EXCEPT !.frag = <<>>, !.rawfrag = <<>>]

\* the URL of task t has been requested from the server
Fetched(t) == Claimed(t) /\ Count(gets, Key(t)) > 0

\* C17 as stated: the URL of every task that claimed it, the seed's too, is
\* normalized, its string is the key in the Visited Set, and no two URLs
\* that differ only in their fragment are both fetched
C17_VisitedKeysNormalized ==
    /\ \A t \in Tasks : Claimed(t) => Normalized(tasks[t].url)
    /\ \A k \in visited : \E t \in Tasks : Key(t) = k /\ Normalized(tasks[t].url)
    /\ \A t1, t2 \in Tasks :
          Fetched(t1) /\ Fetched(t2) =>
              ~SameButFragment(tasks[t1].url, tasks[t2].url)

\* the task fetched an HTML document and failed on its own output: the
\* parent directories could not be made (lines 136-139) or the file could
\* not be written (lines 174-177)
OwnOutputFailed(t) ==
    /\ tasks[t].pc = "done"
    /\ tasks[t].html
    /\ \/ tasks[t].out = "mkdir"
       \/ tasks[t].out = "saved" /\ ~tasks[t].wrote

\* C18 as stated: when a task has failed on the output of its HTML
\* document, making the directories or writing the file, the RESOURCE and
\* PAGE tasks for the links of the document have been spawned all the same
C18_OutputFailureLocal ==
    \A t \in Tasks :
        OwnOutputFailed(t) =>
            /\ AllSpawned(t, resourcesOf(t), "resource")
            /\ AllSpawned(t, pagesOf(t), "page")

\* the URL strings of the links of one kind that collectLinks returns for
\* the documents of the URL strings K of site s
LinkKeys(s, K, pages) ==
    UNION {{String(l) : l \in Range(IF pages THEN Plan[s][k].links.pages
                                    ELSE Plan[s][k].links.resources)} : k \in K}

RECURSIVE ResourceClosure(_, _, _)
\* K with what is reached from it over at most n RESOURCE links
ResourceClosure(s, K, n) ==
    IF n = 0 THEN K
    ELSE ResourceClosure(s, K \cup LinkKeys(s, K, FALSE), n - 1)

\* K with what is reached from it over one PAGE link and then over
\* RESOURCE links
PageStep(s, K) ==
    ResourceClosure(s, K \cup LinkKeys(s, K, TRUE), Cardinality(DOMAIN Plan[s]))

RECURSIVE WithinKeys(_, _)
\* the URL strings at distance at most n from the start URL of site s, a
\* PAGE link counting 1 and a RESOURCE link 0
WithinKeys(s, n) ==
    IF n = 0
    THEN ResourceClosure(s, {String(baseOf(Sites[s].start).url)},
                         Cardinality(DOMAIN Plan[s]))
    ELSE PageStep(s, WithinKeys(s, n - 1))

\* the same for every site and every depth limit
Within == [s \in DOMAIN Sites |-> [n \in 0..MaxDepth |-> WithinKeys(s, n)]]

\* no task of the run ended on a failure and no fault was injected
NoFailure ==
    /\ ~crashed
    /\ faults = 0
    /\ \A t \in Tasks :
          tasks[t].out \notin {"status", "redirect", "transport", "mkdir", "parse"}

\* C19 as stated: at completion of a run in which nothing failed, every URL
\* at distance at most maxDepth from the start URL has been fetched,
\* whatever the interleaving was
C19_AllWithinDepthFetched ==
    (mainpc = "done" /\ NoFailure) =>
        \A k \in Within[site][maxDepth] : Count(gets, k) >= 1

\* the step is one of task t, which is beyond maxDepth
OverDepthStep(t) == tasks[t].depth > maxDepth /\ tasks'[t] # tasks[t]

\* C20: the only step of a task beyond maxDepth is its return: it leaves
\* the Visited Set, its lock, the slots, the GETs and the files as they
\* were and spawns nothing; so the URL of such a task is in the Visited Set
\* only when a task within the bound claimed it, and it is fetched at most
\* by that task
C20_OverDepthLeavesNoTrace ==
    /\ [][\A t \in Tasks :
             OverDepthStep(t) =>
                 /\ tasks'[t] = [tasks[t] EXCEPT !.pc = "done",
                                                 !.out = "overdepth"]
                 /\ Len(tasks') = Len(tasks)
                 /\ UNCHANGED <<visited, visitedMu, sem, gets, files>>]_vars
    /\ [](\A t \in Tasks :
             (tasks[t].depth > maxDepth /\ Key(t) \in visited) =>
                 \E o \in Tasks : /\ tasks[o].depth <= maxDepth
                                  /\ Key(o) = Key(t)
                                  /\ Claimed(o))

\* a URL was discovered beyond the bound first, by a task that returned at
\* once, and then within the bound by a task spawned later, which claimed
\* it, fetched it and saved it
C20_Witness ==
    \E t, o \in Tasks :
        /\ t < o
        /\ Key(t) = Key(o)
        /\ tasks[t].out = "overdepth"
        /\ tasks[o].depth <= maxDepth
        /\ tasks[o].out = "saved"
        /\ tasks[o].wrote
        /\ Count(gets, Key(o)) = 1

----------------------------------------------------------------------------
(* The link rewriter on one document, for every small document URL and     *)
(* attribute value                                                         *)

MaxPathLen == 3     \* the longest URL path and reference tried

PathChars == {"/", ".", "a"}

\* the strings over PathChars of length at most n
Strings(n) == UNION {[1..k -> PathChars] : k \in 0..n}

\* URL paths of a document: empty or rooted
DocPaths == {p \in Strings(MaxPathLen) : p = <<>> \/ p[1] = Sep}

Hosts == {<<"h">>, <<"h", ".", "c">>}

\* attribute values: a path reference, with a query or a fragment, or a
\* reference with a scheme or a host (the document's, or host o); an opaque
\* reference and references with an escape, a space, a control character,
\* an empty query, an upper-case scheme, a user and a port that is no number
Refs(h) ==
    LET paths == Strings(MaxPathLen)
        short == {p \in Strings(MaxPathLen - 1) : p = <<>> \/ p[1] = Sep}
    IN  paths
        \cup {p \o <<"?", "q">> : p \in short}
        \cup {p \o <<"#", "f">> : p \in short}
        \cup {<<Sep, Sep>> \o h \o p : p \in short}
        \cup {Http \o <<":", Sep, Sep>> \o h \o p : p \in short}
        \cup {<<Sep, Sep, "o">> \o p : p \in short}
        \cup {<<"m", ":", "x">>, <<"%">>, <<"?">>, <<Sep, "%", "6", "1">>,
              <<Sep, "a", "%", "2", "F", "a">>, <<"a", " ", "a">>, <<Sep, "\t">>}
        \cup {<<"H", "T", "T", "P", ":", Sep, Sep>> \o h,
              <<Sep, Sep, "u", "@">> \o h, <<Sep, Sep>> \o h \o <<":", "x">>}

\* the elements tried: the four recognized tags with their attribute, a
\* recognized tag with the other attribute, and a tag that is not recognized
Elements ==
    {[data |-> "a", key |-> Href], [data |-> "link", key |-> Href],
     [data |-> "script", key |-> Src], [data |-> "img", key |-> Src],
     [data |-> "img", key |-> Href], [data |-> "div", key |-> Href]}

\* a second attribute of the element, with the key of the first: none, a
\* path on the document's host, or a reference to host o
Seconds == {<<>>, <<Sep, "a">>, <<Sep, Sep, "o">>}

\* the attribute list of an element with value r and second value r2
Attrs(key, r, r2) ==
    IF r2 = <<>> THEN <<[key |-> key, val |-> r]>>
    ELSE <<[key |-> key, val |-> r], [key |-> key, val |-> r2]>>

\* a document has been fetched from rw.base and parsed into rw.doc
InitRewrite ==
    /\ site = "diamond"
    /\ maxDepth = 0
    /\ limit = 1
    /\ host \in Hosts
    /\ rootDir = host
    /\ startURL = [NoURL EXCEPT !.scheme = Https, !.host = host]
    /\ visited = {}
    /\ visitedMu = 0
    /\ sem = 0
    /\ wg = 0
    /\ tasks = <<>>
    /\ files = <<>>
    /\ gets = <<>>
    /\ faults = 0
    /\ mainpc = "off"
    /\ crashed = FALSE
    /\ \E p \in DocPaths, e \in Elements :
          \E r \in Refs(host), r2 \in Seconds :
              rw = [pc |-> "parsed",
                    base |-> [startURL EXCEPT !.path = p],
                    doc |-> <<Text, [type |-> "element", data |-> e.data,
                                     attr |-> Attrs(e.key, r, r2)]>>,
                    localPath |-> <<>>,
                    out |-> <<>>]

\* lines 134 and 171: rewriteLinks on the parsed document, with the
\* document's own local path
RewriteLinks ==
    /\ rw.pc = "parsed"
    /\ rw' = [rw EXCEPT !.pc = "rewritten",
                        !.localPath = makeLocalPath(D, rw.base),
                        !.out = rewriteLinks(D, rw.doc, rw.base,
                                             makeLocalPath(D, rw.base))]
    /\ UNCHANGED <<site, maxDepth, limit, startURL, host, rootDir, visited,
                   visitedMu, sem, wg, tasks, files, gets, faults, mainpc,
                   crashed>>

NextRewrite == RewriteLinks

SpecRewrite == InitRewrite /\ [][NextRewrite]_vars

\* attribute i of node k of the parsed document is one rewriteLinks
\* recognizes and its value resolves to a URL on the mirror host
OnHostLink(k, i) ==
    /\ rw.doc[k].type = "element"
    /\ rw.doc[k].attr[i].key = attrKeyOf(rw.doc[k].data)
    /\ BaseParse(rw.base, rw.doc[k].attr[i].val).ok
    /\ BaseParse(rw.base, rw.doc[k].attr[i].val).url.host = host

\* the first attribute of node k that is an on-host link, 0 when none is
FirstOnHost(k) ==
    IF \A i \in 1..Len(rw.doc[k].attr) : ~OnHostLink(k, i) THEN 0
    ELSE CHOOSE i \in 1..Len(rw.doc[k].attr) :
             OnHostLink(k, i) /\ \A j \in 1..(i - 1) : ~OnHostLink(k, j)

\* the value rewriteLinks left in attribute i of node k leads, from the
\* directory of the document's local path, to the local path of the URL the
\* attribute's value resolved to
Resolves(k, i) ==
    Join(Dir(makeLocalPath(D, rw.base)), rw.out[k].attr[i].val)
        = makeLocalPath(D, BaseParse(rw.base, rw.doc[k].attr[i].val).url)

\* C10 as stated: after rewriteLinks every recognized attribute whose value
\* resolves to a URL on the mirror host holds a path that, joined with the
\* directory of the document's local path, is makeLocalPath of that URL
C10_RewrittenLinksResolve ==
    rw.pc = "rewritten" =>
        \A k \in 1..Len(rw.doc) :
            \A i \in 1..Len(rw.doc[k].attr) : OnHostLink(k, i) => Resolves(k, i)

\* C10 amended: in each element the first recognized attribute whose value
\* resolves to a URL on the mirror host holds such a path, for every
\* document URL and target URL; a later attribute of the element with the
\* same key keeps the value it had
C10_FirstLinkResolves ==
    rw.pc = "rewritten" =>
        \A k \in 1..Len(rw.doc) :
            \A i \in 1..Len(rw.doc[k].attr) :
                OnHostLink(k, i) =>
                    IF i = FirstOnHost(k) THEN Resolves(k, i)
                    ELSE rw.out[k].attr[i].val = rw.doc[k].attr[i].val

\* an element with two on-host links under one key, in a document in a
\* subdirectory: the first was rewritten to a path that climbs out of the
\* directory and the second was left as it was
C10_Witness ==
    /\ rw.pc = "rewritten"
    /\ \E k \in 1..Len(rw.doc) :
          /\ Len(rw.doc[k].attr) = 2
          /\ OnHostLink(k, 1)
          /\ OnHostLink(k, 2)
          /\ rw.out[k].attr[1].val # rw.doc[k].attr[1].val
          /\ Len(rw.out[k].attr[1].val) >= 2
          /\ SubSeq(rw.out[k].attr[1].val, 1, 2) = DotDot
          /\ rw.out[k].attr[2].val = rw.doc[k].attr[2].val

\* C11: rewriteLinks changes no attribute whose value does not resolve or
\* resolves to a URL with another host than the mirror host, and it adds
\* and removes no node and no attribute: nodes, tags, attribute counts and
\* keys are as they were
C11_OffHostUntouched ==
    rw.pc = "rewritten" =>
        /\ Len(rw.out) = Len(rw.doc)
        /\ \A k \in 1..Len(rw.doc) :
              /\ rw.out[k].type = rw.doc[k].type
              /\ rw.out[k].data = rw.doc[k].data
              /\ Len(rw.out[k].attr) = Len(rw.doc[k].attr)
              /\ \A i \in 1..Len(rw.doc[k].attr) :
                    /\ rw.out[k].attr[i].key = rw.doc[k].attr[i].key
                    /\ ~OnHostLink(k, i) =>
                          rw.out[k].attr[i].val = rw.doc[k].attr[i].val

\* an element whose first attribute resolves to another host and whose
\* second is on the mirror host: the walk passed over the first, left it as
\* it was, and rewrote the second
C11_Witness ==
    /\ rw.pc = "rewritten"
    /\ \E k \in 1..Len(rw.doc) :
          /\ Len(rw.doc[k].attr) = 2
          /\ rw.doc[k].attr[1].key = attrKeyOf(rw.doc[k].data)
          /\ BaseParse(rw.base, rw.doc[k].attr[1].val).ok
          /\ BaseParse(rw.base, rw.doc[k].attr[1].val).url.host = <<"o">>
          /\ rw.out[k].attr[1].val = rw.doc[k].attr[1].val
          /\ OnHostLink(k, 2)
          /\ rw.out[k].attr[2].val # rw.doc[k].attr[2].val

\* the last segment of a cleaned URL path: what follows its last separator
LastSegment(p) == SubSeq(Clean(p), LastSep(Clean(p)) + 1, Len(Clean(p)))

\* C12 as stated: a URL whose path is empty, ends in "/" or has a last
\* segment without extension is mapped to index.html under rootDir joined
\* with the cleaned path, and any other URL to rootDir joined with the
\* cleaned path
C12_MapsByLastSegment ==
    rw.pc = "rewritten" =>
        rw.localPath =
            IF \/ rw.base.path = <<>>
               \/ HasSuffixSep(rw.base.path)
               \/ Ext(LastSegment(rw.base.path)) = <<>>
            THEN Join(Join(rootDir, Clean(rw.base.path)), IndexHTML)
            ELSE Join(rootDir, Clean(rw.base.path))

====
